---- MODULE Spec2Model ----
(***************************************************************************)
(* klops-server: the falling-block game engine (services/game/game.ts),    *)
(* its shuffle-bag block generator (services/game/blocks.ts) and the       *)
(* GameHandle operations the command router drives.                        *)
(*                                                                         *)
(* Coordinates are 0-based as in the source; TLA+ sequences are 1-based,   *)
(* so matrix[y][x] of the source is matrix[y + 1][x + 1] here.             *)
(***************************************************************************)
EXTENDS Integers, Sequences, FiniteSets, TLC

VARIABLES
    state,      \* InternalGameState.state : GameState
    userQueue,  \* InternalGameState.userQueue
    bucket,     \* the bucket captured by the blockVectorFactory closure
    timers,     \* number of live setInterval timers running loop
    timerRef,   \* TRUE iff state.loopInterval is the Timeout setInterval returned
                \* (cloneDeep replaces it by a copy clearInterval cannot cancel)
    emitted,    \* the events published by the last operation, in order
    locked,     \* history: the cells of the locked pieces only
    crashed,    \* an exception escaped a timer callback or a handle call
    probe,      \* inputs and results of the pure-function specifications
    revision,   \* which index.ts routes the commands: "index" (src/index.ts),
                \* "part_000", "part_001a" (part_001 up to line 423) or
                \* "part_001" (from line 424 on)
    games,      \* index.ts games: the ids of the registered game handles
    gameSockets,\* index.ts gameSockets: game id -> the array of its sockets
    sockets,    \* per connection: open ("new" before the connection is made,
                \* "open", "closing", "closed"), the gameId variable of its
                \* closure, and left: its last enter_game or leave_game that
                \* found a game was a leave_game
    players,    \* index.ts players: player id -> name of the signed-up users
    sent        \* the ws.send calls of the last handler or tick

routerVars == <<revision, games, gameSockets, sockets, players, sent>>

vars == <<state, userQueue, bucket, timers, timerRef, emitted, locked, crashed, probe,
          routerVars>>

-----------------------------------------------------------------------------
(* Bounds of the model *)

MaxSteps == 5
MaxStepsDefault == 3
MaxStepsQueue == 4
MaxQueue == 1
MaxBurst == 3
MaxTimers == 2
MaxSockets == 2
MaxDraws == 19
RandDen == 2
MaxTurns == 8
ProbeCols == 2
ProbeRows == 2
LinesRows == 4

-----------------------------------------------------------------------------
(* Program constants *)

emptyField == 0
LEVEL_THRESHOLD == 10
GravityDelay == 200

DOWN == "down"
LEFT == "left"
RIGHT == "right"
ROTATE == "rotate"

statusWaiting == "waiting"
statusRunning == "running"
statusEnded == "ended"

looped == "looped"
blockCreated == "blockCreated"
linesCompleted == "linesCompleted"
statusChanged == "statusChanged"

\* a JavaScript array hole / undefined cell
Hole == -1

Vec(x, y) == [x |-> x, y |-> y]

\* blocks.ts: the shape catalog
blockVectors ==
    << << Vec(0, 0), Vec(0, 1), Vec(0, 2), Vec(0, 3) >>,
       << Vec(0, 2), Vec(1, 2), Vec(1, 1), Vec(1, 0) >>,
       << Vec(1, 2), Vec(0, 2), Vec(0, 1), Vec(0, 0) >>,
       << Vec(0, 0), Vec(1, 0), Vec(0, 1), Vec(1, 1) >>,
       << Vec(0, 1), Vec(1, 1), Vec(1, 0), Vec(2, 1) >>,
       << Vec(0, 1), Vec(1, 1), Vec(1, 0), Vec(2, 0) >>,
       << Vec(0, 0), Vec(1, 0), Vec(1, 1), Vec(2, 1) >>,
       << Vec(1, 0), Vec(1, 1), Vec(0, 1) >>,
       << Vec(0, 0), Vec(0, 1), Vec(0, 2) >> >>

\* the keys of the catalog (0-based, as generateBucket pushes them)
ShapeKeys == 0 .. (Len(blockVectors) - 1)

\* activeBlock / nextBlock === undefined
Undefined == [zero |-> Vec(0, 0), vectors |-> << >>, degrees |-> -1]

Range(s) == {s[i] : i \in 1 .. Len(s)}

-----------------------------------------------------------------------------
(* blocks.ts: the shuffle bag *)

\* Math.floor(Math.random() * (i + 1)) for Math.random() = r / RandDen
RandomIndex(r, i) == (r * (i + 1)) \div RandDen

\* the outcomes of the Math.random() calls of one shuffle: one per loop turn
Randoms == [1 .. (Len(blockVectors) - 1) -> 0 .. (RandDen - 1)]

\* mutant of Swap: a[i] = a[j] without the exchange
SwapOverwrites(a, i, j) == [a EXCEPT ![i + 1] = a[j + 1]]

\* [a[i], a[j]] = [a[j], a[i]]
Swap(a, i, j) == [a EXCEPT ![i + 1] = a[j + 1], ![j + 1] = a[i + 1]]

RECURSIVE shuffleFrom(_, _, _)
shuffleFrom(a, i, rnd) ==
    IF i > 0
    THEN shuffleFrom(Swap(a, i, RandomIndex(rnd[i], i)), i - 1, rnd)
    ELSE a

shuffle(a, rnd) == shuffleFrom(a, Len(a) - 1, rnd)

generateBucket(vectors, rnd) == shuffle([k \in 1 .. Len(vectors) |-> k - 1], rnd)

\* one call of the closure blockVectorFactory() returns: the bucket it leaves
\* and the block it returns; threw is the 'No elements in bucket left' error
blockFactory(b, rnd, zero) ==
    LET full == IF Len(b) = 0 THEN generateBucket(blockVectors, rnd) ELSE b
    IN  IF Len(full) = 0
        THEN [bucket |-> full, threw |-> TRUE, key |-> -1, block |-> Undefined]
        ELSE [bucket |-> SubSeq(full, 1, Len(full) - 1),
              threw  |-> FALSE,
              key    |-> full[Len(full)],
              block  |-> [zero |-> zero,
                          vectors |-> blockVectors[full[Len(full)] + 1],
                          degrees |-> 0]]

-----------------------------------------------------------------------------
(* game.ts: geometry *)

toAbsVectors(block) ==
    [i \in 1 .. Len(block.vectors) |->
        Vec(block.zero.x + block.vectors[i].x, block.zero.y + block.vectors[i].y)]

createMatrix(cols, rows) == [y \in 1 .. rows |-> [x \in 1 .. cols |-> emptyField]]

\* matrix[y][x] read in JavaScript: undefined beyond the row's length
cellAt(matrix, v) ==
    IF v.x < Len(matrix[v.y + 1]) THEN matrix[v.y + 1][v.x + 1] ELSE Hole

\* matrix[y][x] = val in JavaScript: an index beyond the length grows the row
setCell(matrix, v, val) ==
    LET row == matrix[v.y + 1]
    IN  IF v.x < Len(row)
        THEN [matrix EXCEPT ![v.y + 1][v.x + 1] = val]
        ELSE [matrix EXCEPT ![v.y + 1] =
                 row \o [i \in 1 .. (v.x - Len(row)) |-> Hole] \o << val >>]

\* matrix[v.y] is undefined for a written cell: the write throws a TypeError
writeThrows(matrix, block) ==
    \E i \in 1 .. Len(block.vectors) :
        LET v == toAbsVectors(block)[i]
        IN  v.y >= 0 /\ v.x >= 0 /\ v.y >= Len(matrix)

RECURSIVE writeCells(_, _, _, _)
writeCells(matrix, vs, i, val) ==
    IF i > Len(vs)
    THEN matrix
    ELSE writeCells(
            IF vs[i].y >= 0 /\ vs[i].x >= 0 THEN setCell(matrix, vs[i], val) ELSE matrix,
            vs, i + 1, val)

eraseBlock(matrix, block) ==
    IF block = Undefined THEN matrix
    ELSE writeCells(matrix, toAbsVectors(block), 1, emptyField)

drawBlock(matrix, block) == writeCells(matrix, toAbsVectors(block), 1, 1)

\* mutant of isBlockedFrom: the occupancy test skips row 0 (y > 0 for y >= 0)
RECURSIVE isBlockedSkipsTopRow(_, _, _, _)
isBlockedSkipsTopRow(matrix, vs, i, acc) ==
    IF i > Len(vs)
    THEN acc
    ELSE isBlockedSkipsTopRow(matrix, vs, i + 1,
            acc
            \/ vs[i].x < 0
            \/ vs[i].y > Len(matrix) - 1
            \/ vs[i].x > Len(matrix[1]) - 1
            \/ (vs[i].y > 0 /\ cellAt(matrix, vs[i]) # emptyField))

\* mutant of isBlockedFrom: the occupancy test is missing
RECURSIVE isBlockedByWallsOnly(_, _, _, _)
isBlockedByWallsOnly(matrix, vs, i, acc) ==
    IF i > Len(vs)
    THEN acc
    ELSE isBlockedByWallsOnly(matrix, vs, i + 1,
            acc
            \/ vs[i].x < 0
            \/ vs[i].y > Len(matrix) - 1
            \/ vs[i].x > Len(matrix[1]) - 1)

\* toAbsVectors(block).reduce((acc, v) => acc || ..., false)
RECURSIVE isBlockedFrom(_, _, _, _)
isBlockedFrom(matrix, vs, i, acc) ==
    IF i > Len(vs)
    THEN acc
    ELSE isBlockedFrom(matrix, vs, i + 1,
            acc
            \/ vs[i].x < 0
            \/ vs[i].y > Len(matrix) - 1
            \/ vs[i].x > Len(matrix[1]) - 1
            \/ (vs[i].y >= 0 /\ cellAt(matrix, vs[i]) # emptyField))

isBlocked(matrix, block) == isBlockedFrom(matrix, toAbsVectors(block), 1, FALSE)

\* Math.ceil(a / 2) and Math.floor(a / 2)
Ceil2(a) == -((-a) \div 2)

\* mutant of Floor2: rounds to the nearest integer, halves upwards
Floor2RoundsHalfUp(a) == (a + 1) \div 2

Floor2(a) == a \div 2

RECURSIVE maxOf(_, _, _)
maxOf(s, i, acc) ==
    IF i > Len(s) THEN acc ELSE maxOf(s, i + 1, IF s[i] > acc THEN s[i] ELSE acc)

maxXIndexOf(vectors) == maxOf([i \in 1 .. Len(vectors) |-> vectors[i].x], 1, 0)
maxYIndexOf(vectors) == maxOf([i \in 1 .. Len(vectors) |-> vectors[i].y], 1, 0)

\* mutant of rotateVectors: mirrors at the x extent instead of the y extent
rotateVectorsAroundX(vs) ==
    [i \in 1 .. Len(vs) |-> Vec(maxXIndexOf(vs) - vs[i].y, vs[i].x)]

\* block.vectors.map(v => ({ x: maxYIndex - v.y, y: v.x }))
rotateVectors(vs) ==
    [i \in 1 .. Len(vs) |-> Vec(maxYIndexOf(vs) - vs[i].y, vs[i].x)]

rotateBlockClockwise(block) ==
    LET maxYIndex == maxYIndexOf(block.vectors)
        maxXIndex == maxXIndexOf(block.vectors)
        vectors == rotateVectors(block.vectors)
        maxNewYIndex == maxYIndexOf(vectors)
        maxNewXIndex == maxXIndexOf(vectors)
        xDistance == IF block.degrees % 180 = 0
                     THEN Ceil2(maxNewXIndex - maxXIndex)
                     ELSE Floor2(maxNewXIndex - maxXIndex)
        yDistance == IF block.degrees % 180 = 0
                     THEN Ceil2(maxNewYIndex - maxYIndex)
                     ELSE Floor2(maxNewYIndex - maxYIndex)
    IN  [degrees |-> block.degrees + 90,
         zero    |-> Vec(block.zero.x - xDistance, block.zero.y - yDistance),
         vectors |-> vectors]

\* mutant of createBlock: Math.ceil for Math.floor
createBlockCeil(cols, b, rnd) == blockFactory(b, rnd, Vec((cols + 1) \div 2, 0))

createBlock(cols, b, rnd) == blockFactory(b, rnd, Vec(cols \div 2, 0))

-----------------------------------------------------------------------------
(* game.ts: the engine.  An operator below takes and returns the record     *)
(*   [state, userQueue, bucket, emitted, locked, threw, rnd]                *)
(* state and userQueue are InternalGameState's fields; bucket is the state  *)
(* of its blockFactory closure (shared by every clone); emitted collects    *)
(* the publish() calls; threw says that an exception was raised; rnd are    *)
(* the Math.random() outcomes a bucket regeneration would see; locked is    *)
(* history.                                                                 *)

createGameState(owner) ==
    [owner |-> owner,
     cols |-> 10,
     name |-> "New Game",
     rows |-> 20,
     status |-> statusWaiting,
     blockCount |-> 0,
     level |-> 0,
     lineCount |-> 0,
     stepCount |-> 0,
     matrix |-> << >>,
     players |-> [p \in {} |-> [points |-> 0]],
     currentPlayer |-> "",
     activeBlock |-> Undefined,
     nextBlock |-> Undefined]

publish(s, event) ==
    [s EXCEPT !.emitted = Append(@, [event |-> event, state |-> s.state])]

throw(s) == [s EXCEPT !.threw = TRUE]

\* stop(): clearInterval is modelled where stop is called
stop(s) == publish([s EXCEPT !.state.status = statusEnded], statusChanged)

calculatePoints(foundLines, level) ==
    LET basePoints == CASE foundLines = 1 -> 40
                        [] foundLines = 2 -> 100
                        [] foundLines = 3 -> 300
                        [] foundLines = 4 -> 1200
                        [] OTHER -> 1500
    IN  basePoints * (level + 1)

\* row.reduce((accL, cell) => accL && cell !== emptyField, true)
lineComplete(row) == \A i \in 1 .. Len(row) : row[i] # emptyField

\* the 0-based indexes of the complete rows
foundLinesOf(matrix) == {i - 1 : i \in {j \in 1 .. Len(matrix) : lineComplete(matrix[j])}}

RECURSIVE keepRows(_, _, _)
keepRows(matrix, foundLines, row) ==
    IF row > Len(matrix) - 1
    THEN << >>
    ELSE (IF row \in foundLines THEN << >> ELSE << matrix[row + 1] >>)
         \o keepRows(matrix, foundLines, row + 1)

\* mutant of dropLinesFromMatrix: the empty rows are pushed after the kept rows
dropLinesFromMatrixEmptyBelow(matrix, foundLines) ==
    keepRows(matrix, foundLines, 0) \o createMatrix(Len(matrix[1]), Cardinality(foundLines))

dropLinesFromMatrix(matrix, foundLines) ==
    createMatrix(Len(matrix[1]), Cardinality(foundLines)) \o keepRows(matrix, foundLines, 0)

\* mutant of levelOf: Math.ceil for Math.floor
levelOfCeil(lineCount) == (lineCount + LEVEL_THRESHOLD - 1) \div LEVEL_THRESHOLD

levelOf(lineCount) == lineCount \div LEVEL_THRESHOLD

updateLines(s) ==
    LET foundLines == foundLinesOf(s.state.matrix)
        n == Cardinality(foundLines)
        lineCount == s.state.lineCount + n
        level == levelOf(lineCount)
        cur == s.state.currentPlayer
    IN  IF n = 0 THEN s
        ELSE IF cur \notin DOMAIN s.state.players
        THEN throw(s)
        ELSE LET out == [s EXCEPT !.state.lineCount = lineCount,
                                  !.state.level = level,
                                  !.state.players[cur].points =
                                      @ + calculatePoints(n, level)]
                 dropped == dropLinesFromMatrix(out.state.matrix, foundLines)
             IN  [publish(out, linesCompleted) EXCEPT !.state.matrix = dropped,
                                                      !.locked = dropped]

initNextBlock(s) ==
    LET made == createBlock(s.state.cols, s.bucket, s.rnd)
        active == s.state.nextBlock
        blocked == isBlocked(s.state.matrix, active)
        out == [s EXCEPT !.bucket = made.bucket,
                         !.state.activeBlock = active,
                         !.state.nextBlock = made.block,
                         !.state.blockCount = @ + 1]
    IN  IF made.threw \/ writeThrows(s.state.matrix, active)
        THEN throw([s EXCEPT !.bucket = made.bucket])
        ELSE LET drawn == publish(
                     [out EXCEPT !.state.matrix = drawBlock(@, active)], blockCreated)
             IN  IF blocked THEN stop(drawn) ELSE drawn

shifted(block, dx, dy) ==
    [block EXCEPT !.zero = Vec(block.zero.x + dx, block.zero.y + dy)]

move(s, direction) ==
    IF s.state.status # statusRunning THEN s
    ELSE LET out == [s EXCEPT !.state.stepCount = @ + 1]
             active == out.state.activeBlock
             erased == eraseBlock(out.state.matrix, active)
             dx == IF direction = LEFT THEN -1 ELSE 1
         IN  IF active = Undefined THEN initNextBlock(out)
             ELSE IF writeThrows(out.state.matrix, active) THEN throw(s)
             ELSE IF direction = DOWN
             THEN IF isBlocked(erased, shifted(active, 0, 1))
                  THEN updateLines(
                          [out EXCEPT !.state.matrix = drawBlock(erased, active),
                                      !.state.activeBlock = Undefined,
                                      !.locked = drawBlock(erased, active)])
                  ELSE [out EXCEPT !.state.activeBlock = shifted(active, 0, 1),
                                   !.state.matrix =
                                       drawBlock(erased, shifted(active, 0, 1))]
             ELSE IF direction \in {LEFT, RIGHT}
             THEN IF isBlocked(erased, shifted(active, dx, 0))
                  THEN [out EXCEPT !.state.matrix = drawBlock(erased, active)]
                  ELSE [out EXCEPT !.state.activeBlock = shifted(active, dx, 0),
                                   !.state.matrix =
                                       drawBlock(erased, shifted(active, dx, 0))]
             ELSE [out EXCEPT !.state.matrix = drawBlock(erased, active)]

rotate(s) ==
    IF s.state.activeBlock = Undefined \/ s.state.status # statusRunning THEN s
    ELSE LET rotatedBlock == rotateBlockClockwise(s.state.activeBlock)
             erased == eraseBlock(s.state.matrix, s.state.activeBlock)
         IN  IF writeThrows(s.state.matrix, s.state.activeBlock) THEN throw(s)
             ELSE IF isBlocked(erased, rotatedBlock) THEN s
             ELSE [s EXCEPT !.state.stepCount = @ + 1,
                            !.state.activeBlock = rotatedBlock,
                            !.state.matrix = drawBlock(erased, rotatedBlock)]

\* one turn of loop's switch
apply(s, action) ==
    IF action = ROTATE THEN rotate(s)
    ELSE IF action \in {LEFT, RIGHT, DOWN} THEN move(s, action)
    ELSE s

\* loop's while (true): shift the queue until it is empty
RECURSIVE drain(_)
drain(s) ==
    IF s.threw \/ Len(s.userQueue) = 0
    THEN s
    ELSE drain(apply([s EXCEPT !.userQueue = Tail(@)], Head(s.userQueue)))

\* start(): the state handle.start() stores
start(s) ==
    LET first == createBlock(s.state.cols, s.bucket, s.rnd)
        second == createBlock(s.state.cols, first.bucket, s.rnd)
    IN  IF first.threw \/ second.threw
        THEN throw(s)
        ELSE [s EXCEPT !.bucket = second.bucket,
                       !.state.matrix = createMatrix(s.state.cols, s.state.rows),
                       !.state.status = statusRunning,
                       !.state.activeBlock = first.block,
                       !.state.nextBlock = second.block,
                       !.locked = createMatrix(s.state.cols, s.state.rows)]

-----------------------------------------------------------------------------
(* Inputs of the model *)

\* player ids; '' is the only id createGameState's currentPlayer designates
PlayerIds == {"", "p1"}

Owner == "p1"

\* the GameConfig values configure() is called with
Configs ==
    { [cols |-> 1, rows |-> 4, name |-> "column"],
      [cols |-> 5, rows |-> 4, name |-> "wide"],
      [cols |-> 5, rows |-> 2, name |-> "low"],
      [cols |-> 5, rows |-> 1, name |-> "flat"] }

\* the Math.random() outcomes the game's shuffles see: all 0
GameRandoms == {[i \in 1 .. (Len(blockVectors) - 1) |-> 0]}

-----------------------------------------------------------------------------
(* createGameHandle: the state after construction and the handle's methods *)

\* the connections of the model and the player each one authenticated as
Conns == {"c1", "c2"}

playerOf(c) == IF c = "c1" THEN "p1" ELSE "p2"

\* no connection yet, nothing registered
routerIdle ==
    /\ revision = "part_001"
    /\ games = {}
    /\ gameSockets = << >>
    /\ sockets = [c \in Conns |-> [open |-> "open", gameId |-> "", left |-> FALSE]]
    /\ players = << >>
    /\ sent = << >>

internal(rnd) ==
    [state |-> state, userQueue |-> userQueue, bucket |-> bucket,
     emitted |-> << >>, locked |-> locked, threw |-> FALSE, rnd |-> rnd]

NoProbe == [kind |-> "none"]

Init ==
    /\ state = createGameState(Owner)
    /\ userQueue = << >>
    /\ bucket \in {generateBucket(blockVectors, rnd) : rnd \in GameRandoms}
    /\ timers = 0
    /\ timerRef = FALSE
    /\ emitted = << >>
    /\ locked = << >>
    /\ crashed = FALSE
    /\ probe = NoProbe
    /\ routerIdle

\* the queue lengths explored: MaxQueue with the whole handle, MaxBurst when
\* only the queue and the loop are exercised
QueueBound == IF probe.kind = "queue" THEN MaxBurst ELSE MaxQueue

\* mutant of enqueue: unshift for push
enqueueAtHead(action) ==
    /\ ~crashed
    /\ Len(userQueue) < QueueBound
    /\ userQueue' = << action >> \o userQueue
    /\ emitted' = << >>
    /\ UNCHANGED <<state, bucket, timers, timerRef, locked, crashed, probe>>

enqueue(action) ==
    /\ ~crashed
    /\ Len(userQueue) < QueueBound
    /\ userQueue' = Append(userQueue, action)
    /\ emitted' = << >>
    /\ UNCHANGED <<state, bucket, timers, timerRef, locked, crashed, probe>>

MoveDown == enqueue(DOWN)

MoveLeft == enqueue(LEFT)

MoveRight == enqueue(RIGHT)

Rotate == enqueue(ROTATE)

Start ==
    /\ ~crashed
    /\ timers < MaxTimers
    /\ \E rnd \in GameRandoms :
          LET out == start(internal(rnd))
          IN  /\ state' = out.state
              /\ bucket' = out.bucket
              /\ locked' = out.locked
              /\ emitted' = << [event |-> "started", state |-> out.state] >>
    /\ timers' = timers + 1
    /\ timerRef' = TRUE
    /\ UNCHANGED <<userQueue, crashed, probe>>

Stop ==
    /\ ~crashed
    /\ LET out == stop(internal(<< >>))
       IN  /\ state' = out.state
           /\ emitted' = Append(out.emitted, [event |-> "stopped", state |-> out.state])
    /\ timers' = IF timerRef THEN timers - 1 ELSE timers
    /\ timerRef' = FALSE
    /\ UNCHANGED <<userQueue, bucket, locked, crashed, probe>>

AddPlayer(p) ==
    /\ ~crashed
    /\ state.status = statusWaiting
    /\ p \notin DOMAIN state.players
    /\ state' = [state EXCEPT !.players =
                    [q \in DOMAIN state.players \cup {p} |->
                        IF q = p THEN [points |-> 0] ELSE state.players[q]]]
    /\ emitted' = << [event |-> "player_added", state |-> state'] >>
    /\ UNCHANGED <<userQueue, bucket, timers, timerRef, locked, crashed, probe>>

RemovePlayer(p) ==
    /\ ~crashed
    /\ p \in DOMAIN state.players
    /\ state' = [state EXCEPT !.players =
                    [q \in DOMAIN state.players \ {p} |-> state.players[q]]]
    /\ emitted' = << [event |-> "player_removed", state |-> state'] >>
    /\ UNCHANGED <<userQueue, bucket, timers, timerRef, locked, crashed, probe>>

\* mutant of Configure: the status test is missing
ConfigureInAnyStatus(c) ==
    /\ ~crashed
    /\ state' = [state EXCEPT !.cols = c.cols, !.rows = c.rows, !.name = c.name]
    /\ emitted' = << [event |-> "config_updated", state |-> state'] >>
    /\ UNCHANGED <<userQueue, bucket, timers, timerRef, locked, crashed, probe>>

Configure(c) ==
    /\ ~crashed
    /\ IF state.status # statusWaiting
       THEN /\ state' = state
            /\ emitted' = << >>
       ELSE /\ state' = [state EXCEPT !.cols = c.cols, !.rows = c.rows,
                                      !.name = c.name]
            /\ emitted' = << [event |-> "config_updated", state |-> state'] >>
    /\ UNCHANGED <<userQueue, bucket, timers, timerRef, locked, crashed, probe>>

\* what a run of loop leaves: the committed state, or the crash of the process
\* the steps explored on a board: fewer on the default 10 x 20 board, where
\* no piece reaches the floor within MaxSteps steps
StepBound(cols) ==
    IF probe.kind = "queue" THEN MaxStepsQueue
    ELSE IF cols = createGameState(Owner).cols THEN MaxStepsDefault ELSE MaxSteps

commit(out, events) ==
    /\ out.state.stepCount <= StepBound(out.state.cols)
    /\ bucket' = out.bucket
    /\ emitted' = events
    /\ IF out.threw
       THEN /\ crashed' = TRUE
            /\ UNCHANGED <<state, userQueue, timerRef, locked>>
       ELSE /\ state' = out.state
            /\ userQueue' = out.userQueue
            /\ locked' = out.locked
            /\ timerRef' = FALSE
            /\ crashed' = FALSE
    /\ UNCHANGED <<timers, probe>>

\* loop with a non-empty queue
LoopDrain ==
    /\ ~crashed
    /\ timers > 0
    /\ Len(userQueue) > 0
    /\ \E rnd \in GameRandoms :
          \E out \in {drain(internal(rnd))} :
              commit(out, IF out.threw THEN out.emitted
                          ELSE publish(out, looped).emitted)

\* loop with an empty queue, more than 200 ms after the last gravity step
LoopGravity ==
    /\ ~crashed
    /\ timers > 0
    /\ Len(userQueue) = 0
    /\ \E rnd \in GameRandoms :
          \E out \in {move(internal(rnd), DOWN)} :
              commit(out, IF out.threw THEN out.emitted
                          ELSE Append(out.emitted, [event |-> looped, state |-> state]))

Next ==
    \/ MoveDown /\ UNCHANGED routerVars
    \/ MoveLeft /\ UNCHANGED routerVars
    \/ MoveRight /\ UNCHANGED routerVars
    \/ Rotate /\ UNCHANGED routerVars
    \/ Start /\ UNCHANGED routerVars
    \/ Stop /\ UNCHANGED routerVars
    \/ \E p \in PlayerIds : AddPlayer(p) /\ UNCHANGED routerVars
    \/ \E p \in PlayerIds : RemovePlayer(p) /\ UNCHANGED routerVars
    \/ \E c \in Configs : Configure(c) /\ UNCHANGED routerVars
    \/ LoopDrain /\ UNCHANGED routerVars
    \/ LoopGravity /\ UNCHANGED routerVars

Spec == Init /\ [][Next]_vars

-----------------------------------------------------------------------------
(* The handle under a steady stream of lateral and rotate commands.  The    *)
(* interval timer of a started game fires again and again (setInterval,     *)
(* game.ts:124): a game whose queue stays empty gets its gravity step.      *)

\* one run of loop
Tick == (LoopDrain \/ LoopGravity) /\ UNCHANGED routerVars

\* a run of loop that finds the queue empty
Gravity == LoopGravity /\ UNCHANGED routerVars

NextStream ==
    \/ MoveLeft /\ UNCHANGED routerVars
    \/ MoveRight /\ UNCHANGED routerVars
    \/ Rotate /\ UNCHANGED routerVars
    \/ Start /\ UNCHANGED routerVars
    \/ \E c \in Configs : Configure(c) /\ UNCHANGED routerVars
    \/ LoopDrain /\ UNCHANGED routerVars
    \/ LoopGravity /\ UNCHANGED routerVars

SpecStream == Init /\ [][NextStream]_vars /\ WF_vars(Gravity)

-----------------------------------------------------------------------------
(* The block generator alone: one blockVectorFactory closure, drawn from    *)
(* MaxDraws times.  probe.drawn holds the keys of the draws 9k+1 .. 9k+j    *)
(* (j = probe.inCycle), probe.repeated says that one of them came twice.    *)

gameIdle ==
    /\ state = createGameState(Owner)
    /\ userQueue = << >>
    /\ timers = 0
    /\ timerRef = FALSE
    /\ emitted = << >>
    /\ locked = << >>
    /\ crashed = FALSE
    /\ routerIdle

InitBag ==
    /\ gameIdle
    /\ bucket \in {generateBucket(blockVectors, rnd) : rnd \in Randoms}
    /\ probe = [kind |-> "bag", draws |-> 0, inCycle |-> 0, drawn |-> {},
                repeated |-> FALSE, threw |-> FALSE]

\* Math.random() is only called when the bucket is regenerated
RandomsFor(b) == IF Len(b) = 0 THEN Randoms ELSE {[i \in 1 .. (Len(blockVectors) - 1) |-> 0]}

Draw ==
    /\ probe.kind = "bag"
    /\ probe.draws < MaxDraws
    /\ ~probe.threw
    /\ \E rnd \in RandomsFor(bucket) :
          LET made == blockFactory(bucket, rnd, Vec(0, 0))
              fresh == probe.inCycle = Len(blockVectors)
              before == IF fresh THEN {} ELSE probe.drawn
          IN  /\ bucket' = made.bucket
              /\ probe' = [kind |-> "bag",
                           draws |-> probe.draws + 1,
                           inCycle |-> IF fresh THEN 1 ELSE probe.inCycle + 1,
                           drawn |-> IF made.threw THEN before ELSE before \cup {made.key},
                           repeated |-> (~fresh /\ probe.repeated) \/ made.key \in before,
                           threw |-> made.threw]
    /\ UNCHANGED <<state, userQueue, timers, timerRef, emitted, locked, crashed>>

NextBag == Draw /\ UNCHANGED routerVars

SpecBag == InitBag /\ [][NextBag]_vars

-----------------------------------------------------------------------------
(* rotateBlockClockwise alone, applied MaxTurns times to a catalog shape *)

ProbeOrigins == {Vec(x, y) : x \in 0 .. ProbeCols, y \in 0 .. ProbeRows}

InitRotate ==
    /\ gameIdle
    /\ bucket = << >>
    /\ \E k \in ShapeKeys, zero \in ProbeOrigins :
          LET block == [zero |-> zero, vectors |-> blockVectors[k + 1], degrees |-> 0]
          IN  probe = [kind |-> "rotate", original |-> block, block |-> block, turns |-> 0]

Turn ==
    /\ probe.kind = "rotate"
    /\ probe.turns < MaxTurns
    /\ probe' = [probe EXCEPT !.block = rotateBlockClockwise(@), !.turns = @ + 1]
    /\ UNCHANGED <<state, userQueue, bucket, timers, timerRef, emitted, locked, crashed>>

NextRotate == Turn /\ UNCHANGED routerVars

SpecRotate == InitRotate /\ [][NextRotate]_vars

-----------------------------------------------------------------------------
(* isBlocked alone, on every ProbeRows x ProbeCols matrix and every catalog *)
(* shape at origins in and around the matrix                                *)

ProbeMatrices == [1 .. ProbeRows -> [1 .. ProbeCols -> {emptyField, 1}]]

ProbeZeros == {Vec(x, y) : x \in -1 .. ProbeCols, y \in -2 .. ProbeRows}

InitBlocked ==
    /\ gameIdle
    /\ bucket = << >>
    /\ \E m \in ProbeMatrices, k \in ShapeKeys, zero \in ProbeZeros :
          probe = [kind |-> "blocked",
                   matrix |-> m,
                   block |-> [zero |-> zero, vectors |-> blockVectors[k + 1], degrees |-> 0],
                   done |-> FALSE,
                   result |-> FALSE]

Check ==
    /\ probe.kind = "blocked"
    /\ ~probe.done
    /\ probe' = [probe EXCEPT !.done = TRUE, !.result = isBlocked(probe.matrix, probe.block)]
    /\ UNCHANGED <<state, userQueue, bucket, timers, timerRef, emitted, locked, crashed>>

NextBlocked == Check /\ UNCHANGED routerVars

SpecBlocked == InitBlocked /\ [][NextBlocked]_vars

-----------------------------------------------------------------------------
(* dropLinesFromMatrix alone, as updateLines calls it: on every              *)
(* LinesRows x ProbeCols matrix with at least one complete row, with the     *)
(* indexes of its complete rows                                              *)

LinesMatrices ==
    {m \in [1 .. LinesRows -> [1 .. ProbeCols -> {emptyField, 1}]] : foundLinesOf(m) # {}}

InitLines ==
    /\ gameIdle
    /\ bucket = << >>
    /\ \E m \in LinesMatrices :
          probe = [kind |-> "lines", matrix |-> m, done |-> FALSE, result |-> << >>]

DropLines ==
    /\ probe.kind = "lines"
    /\ ~probe.done
    /\ probe' = [probe EXCEPT
                    !.done = TRUE,
                    !.result = dropLinesFromMatrix(probe.matrix, foundLinesOf(probe.matrix))]
    /\ UNCHANGED <<state, userQueue, bucket, timers, timerRef, emitted, locked, crashed>>

NextLines == DropLines /\ UNCHANGED routerVars

SpecLines == InitLines /\ [][NextLines]_vars

-----------------------------------------------------------------------------
(* The pending-input queue and the loop alone: one handle on the default     *)
(* board, queues of up to MaxBurst actions.                                  *)

InitQueue ==
    /\ gameIdle
    /\ bucket \in {generateBucket(blockVectors, rnd) : rnd \in GameRandoms}
    /\ probe = [kind |-> "queue"]

NextQueue ==
    \/ MoveDown /\ UNCHANGED routerVars
    \/ MoveLeft /\ UNCHANGED routerVars
    \/ MoveRight /\ UNCHANGED routerVars
    \/ Rotate /\ UNCHANGED routerVars
    \/ Start /\ UNCHANGED routerVars
    \/ LoopDrain /\ UNCHANGED routerVars
    \/ LoopGravity /\ UNCHANGED routerVars

SpecQueue == InitQueue /\ [][NextQueue]_vars

-----------------------------------------------------------------------------
(* index.ts: the command router in front of one game handle.  Four           *)
(* revisions of index.ts are in the sources: src/src/index.ts ("index"),     *)
(* src/unnamed/part_000, lines 1-423 of src/unnamed/part_001 ("part_001a")   *)
(* and lines 424-856 of it ("part_001"); revision says which one runs.       *)
(* sent lists the ws.send calls of the last handler or tick in order: the    *)
(* messages sent to one socket (n = 0: responses, and the own_game_added,    *)
(* game_state and games_list of "index") and the game-scoped broadcasts (the *)
(* n-th of the step).  A send to a socket that is no longer open is listed   *)
(* as well.  The lobby broadcast of games_list is not listed.                *)

Revisions == {"index", "part_000", "part_001a", "part_001"}

\* the owner of a game that createGameHandle() made without an argument
NoOwner == "undefined"

\* the id createGameState gave the game, and an id no game has
GameId == "g1"
NoGameId == "g0"

RouterConfigs == {c \in Configs : c.name = "wide"}

engineVars == <<state, userQueue, bucket, timers, timerRef, locked, crashed, probe>>

\* a handler that calls no method of the handle
noEngineCall == emitted' = << >> /\ UNCHANGED engineVars

\* respond(ws, commandId, status, ...)
respond(c, status) == << [to |-> c, event |-> "response", status |-> status, n |-> 0] >>

\* ws.send(assembleMessage(event, ...)) to the sender
send(c, event) == << [to |-> c, event |-> event, status |-> "", n |-> 0] >>

\* gameSockets[id], if any
socketsOf(gs, id) == IF id \in DOMAIN gs THEN gs[id] ELSE << >>

\* broadcastToGame(id, event, msg) as the n-th broadcast of the step
broadcastToGame(gs, id, event, n) ==
    [i \in 1 .. Len(socketsOf(gs, id)) |->
        [to |-> socketsOf(gs, id)[i], event |-> event, status |-> "", n |-> n]]

\* the game-scoped messages gameListener broadcasts for one engine event
broadcastNames(rev, event) ==
    IF rev = "part_001"
    THEN (IF event \in {"started", looped, blockCreated, linesCompleted, "stopped"}
          THEN << event >> ELSE << >>)
    ELSE CASE event = "config_updated" -> << "config_updated" >>
           [] event = "player_added" -> << "participant_added", "participant_list" >>
           [] event = "player_removed" -> << "participant_left" >>
           [] event = "stopped" -> << "game_canceled" >>
           [] event = "started" /\ rev = "part_001a" -> << "game_started" >>
           [] event = looped /\ rev = "part_001a" -> << "game_looped" >>
           [] OTHER -> << >>

\* gameListener called for the events i .. Len(events), n broadcasts so far
RECURSIVE gameListener(_, _, _, _, _)
gameListener(rev, gs, events, i, n) ==
    IF i > Len(events)
    THEN << >>
    ELSE LET names == broadcastNames(rev, events[i].event)
             first == IF Len(names) >= 1
                      THEN broadcastToGame(gs, GameId, names[1], n + 1) ELSE << >>
             second == IF Len(names) >= 2
                       THEN broadcastToGame(gs, GameId, names[2], n + 2) ELSE << >>
         IN  first \o second \o gameListener(rev, gs, events, i + 1, n + Len(names))

\* what the listener createGame registered sends for the events of a step
relayed(gs, events) == gameListener(revision, gs, events, 1, 0)

\* the listener's case 'stopped': the game and its sockets are forgotten, and
\* part_000 closes the creator's socket once per socket of the game
hasStopped(events) == \E i \in 1 .. Len(events) : events[i].event = "stopped"

\* mutant of gamesAfter: the listener's case 'stopped' keeps games[state.id]
gamesAfterKeepsGame(events) == games

gamesAfter(events) == IF hasStopped(events) THEN games \ {GameId} ELSE games

gameSocketsAfter(gs, events) ==
    IF hasStopped(events) THEN [g \in DOMAIN gs \ {GameId} |-> gs[g]] ELSE gs

Creator == "c1"

closeSocket(sk, c) == [sk EXCEPT ![c].open = IF @ = "open" THEN "closing" ELSE @]

socketsAfter(sk, gs, events) ==
    IF revision = "part_000" /\ hasStopped(events) /\ socketsOf(gs, GameId) # << >>
    THEN closeSocket(sk, Creator) ELSE sk

addGameSocket(gs, id, c) ==
    [g \in DOMAIN gs \cup {id} |-> IF g = id THEN Append(socketsOf(gs, id), c) ELSE gs[g]]

\* releaseGameSocket: filter's result is dropped, the arrays stay as they are
releaseGameSocket(gs, c) == gs

loadGame(id) == id \in games

\* mutant of addPlayerCall: the status test is missing
addPlayerCallInAnyStatus(p) ==
    IF p \notin DOMAIN state.players
    THEN /\ ~crashed
         /\ state' = [state EXCEPT !.players =
                         [q \in DOMAIN state.players \cup {p} |->
                             IF q = p THEN [points |-> 0] ELSE state.players[q]]]
         /\ emitted' = << [event |-> "player_added", state |-> state'] >>
         /\ UNCHANGED <<userQueue, bucket, timers, timerRef, locked, crashed, probe>>
    ELSE noEngineCall

\* game.addPlayer(p) and game.removePlayer(p), whichever branch they take
addPlayerCall(p) ==
    IF state.status = statusWaiting /\ p \notin DOMAIN state.players
    THEN AddPlayer(p) ELSE noEngineCall

removePlayerCall(p) ==
    IF p \in DOMAIN state.players THEN RemovePlayer(p) ELSE noEngineCall

\* ws.onmessage runs for a message of connection c: the process is up and the
\* socket is open or closing (after ws.close() the messages that arrive before
\* the peer's close frame are still delivered)
live(c) == ~crashed /\ sockets[c].open \in {"open", "closing"}

\* the messages a client sends as raw text, as sequences of tokens: "@", ":",
\* "\n" and words that hold none of the three
RawMessages ==
    { << "send_games", ":", "7", "@", "null" >>,
      << "bogus", ":", "7", "@", "null" >>,
      << "bogus", ":", "7", ":", "8", "@", "null", "@", "x" >>,
      << "bogus", ":", "7" >>,
      << "bogus", ":", "7", "@" >>,
      << "bogus", ":", "7", "@", "\n", "null" >>,
      << "bogus", "@", "null" >>,
      << "x", "@", "\n", ":", "y", "@", "z" >>,
      << "@", "null" >>,
      << "send_games" >>,
      << >> }

\* the index of the first token equal to tok from position i on, 0 if none
RECURSIVE indexOf(_, _, _)
indexOf(raw, tok, i) ==
    IF i > Len(raw) THEN 0
    ELSE IF raw[i] = tok THEN i ELSE indexOf(raw, tok, i + 1)

\* where /\@(.+)/ first matches: an "@" with a character other than a line
\* break right after it; 0 if nowhere
RECURSIVE matchAt(_, _)
matchAt(raw, i) ==
    IF i >= Len(raw) THEN 0
    ELSE IF raw[i] = "@" /\ raw[i + 1] # "\n" THEN i ELSE matchAt(raw, i + 1)

\* the tokens of raw from i up to the next line break
RECURSIVE lineFrom(_, _)
lineFrom(raw, i) ==
    IF i > Len(raw) \/ raw[i] = "\n" THEN << >>
    ELSE << raw[i] >> \o lineFrom(raw, i + 1)

disassembleMessage(raw) ==
    LET at == matchAt(raw, 1)
        prefix == SubSeq(raw, 1, at - 1)
        colon == indexOf(prefix, ":", 1)
        rest == SubSeq(prefix, colon + 1, Len(prefix))
        second == indexOf(rest, ":", 1)
    IN  IF at = 0
        THEN [threw |-> "Invalid message format"]
        ELSE IF colon = 0
        THEN [threw |-> "Invalid message command prefix"]
        ELSE [threw |-> "",
              command |-> SubSeq(prefix, 1, colon - 1),
              id |-> IF second = 0 THEN rest ELSE SubSeq(rest, 1, second - 1),
              data |-> lineFrom(raw, at + 1)]

\* disassembleMessage of "index": the event is the text before the first
\* match of /\@(.+)/, the whole message if there is none
disassembleEvent(raw) ==
    LET at == matchAt(raw, 1)
    IN  [event |-> IF at = 0 THEN raw ELSE SubSeq(raw, 1, at - 1),
         data |-> IF at = 0 THEN << >> ELSE lineFrom(raw, at + 1)]

InitRouter ==
    /\ state = createGameState(Owner)
    /\ userQueue = << >>
    /\ bucket \in {generateBucket(blockVectors, rnd) : rnd \in GameRandoms}
    /\ timers = 0
    /\ timerRef = FALSE
    /\ emitted = << >>
    /\ locked = << >>
    /\ crashed = FALSE
    /\ probe = NoProbe
    /\ revision \in Revisions
    /\ games = {}
    /\ gameSockets = << >>
    /\ sockets = [c \in Conns |->
                     [open |-> IF revision = "index" THEN "new" ELSE "open",
                      gameId |-> "", left |-> FALSE]]
    /\ players = << >>
    /\ sent = << >>

\* what a handler leaves of the router's state when no 'stopped' is relayed
routerKeeps ==
    /\ revision' = revision
    /\ games' = games
    /\ gameSockets' = gameSockets
    /\ players' = players

\* the router's state after a handler whose engine call published emitted'
routerRelays ==
    /\ revision' = revision
    /\ players' = players
    /\ games' = gamesAfter(emitted')
    /\ gameSockets' = gameSocketsAfter(gameSockets, emitted')
    /\ sockets' = socketsAfter(sockets, gameSockets, emitted')

CreateGame(c) ==
    /\ live(c)
    /\ revision # "index"
    /\ playerOf(c) = Owner
    /\ games = {}
    /\ state = createGameState(Owner)
    /\ noEngineCall
    /\ games' = {GameId}
    /\ sent' = respond(c, "ok")
    /\ UNCHANGED <<revision, gameSockets, sockets, players>>

EnterGame(c, id) ==
    /\ live(c)
    /\ revision # "index"
    /\ IF ~loadGame(id)
       THEN /\ noEngineCall
            /\ sent' = respond(c, "error")
            /\ sockets' = [sockets EXCEPT ![c].gameId = "undefined"]
            /\ routerKeeps
       ELSE /\ Len(socketsOf(gameSockets, id)) < MaxSockets
            /\ addPlayerCall(playerOf(c))
            /\ gameSockets' = addGameSocket(releaseGameSocket(gameSockets, c), id, c)
            /\ sent' = relayed(gameSockets', emitted') \o respond(c, "ok")
            /\ sockets' = [sockets EXCEPT ![c].gameId = id, ![c].left = FALSE]
            /\ UNCHANGED <<revision, games, players>>

LeaveGame(c) ==
    /\ live(c)
    /\ revision # "index"
    /\ IF ~loadGame(sockets[c].gameId)
       THEN /\ noEngineCall
            /\ sent' = IF revision # "part_000" THEN respond(c, "error") ELSE << >>
            /\ UNCHANGED sockets
       ELSE /\ removePlayerCall(playerOf(c))
            /\ sent' = relayed(releaseGameSocket(gameSockets, c), emitted')
                       \o (IF revision # "part_000" THEN respond(c, "ok") ELSE << >>)
            /\ sockets' = [sockets EXCEPT ![c].left = TRUE]
    /\ routerKeeps

CancelGame(c) ==
    /\ live(c)
    /\ revision # "index"
    /\ IF ~loadGame(sockets[c].gameId)
       THEN /\ noEngineCall
            /\ sent' = IF revision # "part_000" THEN respond(c, "error") ELSE << >>
            /\ routerKeeps
            /\ UNCHANGED sockets
       ELSE IF revision # "part_000"
       THEN IF playerOf(c) # state.owner
            THEN /\ noEngineCall
                 /\ sent' = << >>
                 /\ routerKeeps
                 /\ UNCHANGED sockets
            ELSE /\ Stop
                 /\ sent' = relayed(gameSockets, emitted') \o respond(c, "ok")
                 /\ routerRelays
       ELSE \* part_000: removePlayer comes before the owner test
            /\ ~crashed
            /\ LET p == playerOf(c)
                   removed == p \in DOMAIN state.players
                   left == IF removed
                           THEN [state EXCEPT !.players =
                                    [q \in DOMAIN state.players \ {p} |-> state.players[q]]]
                           ELSE state
                   first == IF removed
                            THEN << [event |-> "player_removed", state |-> left] >>
                            ELSE << >>
                   out == stop([internal(<< >>) EXCEPT !.state = left])
               IN  IF p # state.owner
                   THEN /\ state' = left
                        /\ emitted' = first
                        /\ UNCHANGED <<timers, timerRef>>
                   ELSE /\ state' = out.state
                        /\ emitted' = first \o out.emitted
                                      \o << [event |-> "stopped", state |-> out.state] >>
                        /\ timers' = IF timerRef THEN timers - 1 ELSE timers
                        /\ timerRef' = FALSE
            /\ UNCHANGED <<userQueue, bucket, locked, crashed, probe>>
            /\ sent' = relayed(gameSockets, emitted')
            /\ routerRelays

\* mutant of StartGame: the owner test is missing
StartGameByAnyone(c) ==
    /\ live(c)
    /\ revision # "index"
    /\ IF revision = "part_000"
       THEN /\ noEngineCall
            /\ sent' = << >>
       ELSE IF ~loadGame(sockets[c].gameId)
       THEN /\ noEngineCall
            /\ sent' = respond(c, "error")
       ELSE /\ Start
            /\ sent' = relayed(gameSockets, emitted') \o respond(c, "ok")
    /\ routerKeeps
    /\ UNCHANGED sockets

StartGame(c) ==
    /\ live(c)
    /\ revision # "index"
    /\ IF revision = "part_000"
       THEN \* no case 'start_game' in the switch
            /\ noEngineCall
            /\ sent' = << >>
       ELSE IF ~loadGame(sockets[c].gameId)
       THEN /\ noEngineCall
            /\ sent' = respond(c, "error")
       ELSE IF playerOf(c) # state.owner
       THEN /\ noEngineCall
            /\ sent' = << >>
       ELSE /\ Start
            /\ sent' = relayed(gameSockets, emitted') \o respond(c, "ok")
    /\ routerKeeps
    /\ UNCHANGED sockets

\* configGame; in "index" there is no owner test, loadGame throws for a game
\* that is not registered, and broadcastToGame throws when the game has no
\* array of sockets, which the catch block's own broadcastToGame repeats
ConfigGame(c, config) ==
    /\ live(c)
    /\ IF revision = "index"
       THEN LET id == sockets[c].gameId
                configured == IF state.status # statusWaiting
                              THEN state
                              ELSE [state EXCEPT !.cols = config.cols,
                                                 !.rows = config.rows,
                                                 !.name = config.name]
            IN  /\ state' = IF loadGame(id) THEN configured ELSE state
                /\ emitted' = IF loadGame(id) /\ state.status = statusWaiting
                              THEN << [event |-> "config_updated", state |-> state'] >>
                              ELSE << >>
                /\ crashed' = (id \notin DOMAIN gameSockets)
                /\ sent' = broadcastToGame(gameSockets, id,
                               IF loadGame(id) THEN "config_changed" ELSE "game_not_found", 1)
                /\ UNCHANGED <<userQueue, bucket, timers, timerRef, locked, probe>>
       ELSE IF ~loadGame(sockets[c].gameId)
       THEN /\ noEngineCall
            /\ sent' = << >>
       ELSE IF playerOf(c) # state.owner
       THEN /\ noEngineCall
            /\ sent' = respond(c, "error")
       ELSE /\ Configure(config)
            /\ sent' = relayed(gameSockets, emitted')
                       \o (IF revision # "part_000" THEN respond(c, "ok") ELSE << >>)
    /\ routerKeeps
    /\ UNCHANGED sockets

\* ws.onmessage for the messages of RawMessages: send_games and commands no
\* revision knows
Receive(c, raw) ==
    /\ live(c)
    /\ noEngineCall
    /\ LET message == disassembleMessage(raw)
       IN  IF revision = "index"
           THEN /\ sent' = IF disassembleEvent(raw).event = << "send_games" >>
                           THEN send(c, "games_list") ELSE << >>
                /\ UNCHANGED sockets
           ELSE IF message.threw # ""
           THEN /\ sent' = respond(c, "error")
                /\ sockets' = closeSocket(sockets, c)
           ELSE /\ sent' = IF message.command = << "send_games" >>
                           THEN respond(c, "ok")
                           ELSE IF revision # "part_000"
                           THEN respond(c, "error")
                           ELSE << >>
                /\ UNCHANGED sockets
    /\ routerKeeps

\* the connection goes away and ws.onclose runs
Close(c) ==
    /\ ~crashed
    /\ sockets[c].open # "closed"
    /\ sockets[c].open # "new"
    /\ IF revision \in {"part_000", "part_001a"} /\ loadGame(sockets[c].gameId)
       THEN /\ removePlayerCall(playerOf(c))
            /\ sent' = relayed(gameSockets, emitted')
       ELSE /\ noEngineCall
            /\ sent' = << >>
    /\ sockets' = [sockets EXCEPT ![c].open = "closed"]
    /\ routerKeeps

\* an exception leaves ws.onmessage: nothing catches it and the process ends
uncaught ==
    /\ crashed' = TRUE
    /\ emitted' = << >>
    /\ UNCHANGED <<state, userQueue, bucket, timers, timerRef, locked, probe>>

\* move_left, move_right, move_down and rotate; part_000 has no such case,
\* part_001a logs that it is not the player's turn and goes on, part_001
\* calls game.isCurrentPlayer, which the handle of game.ts does not have: a
\* TypeError that nothing catches
HandleInput(c, dir) ==
    /\ live(c)
    /\ revision # "index"
    /\ IF revision = "part_000" \/ ~loadGame(sockets[c].gameId)
       THEN noEngineCall
       ELSE IF revision = "part_001"
       THEN uncaught
       ELSE enqueue(dir)
    /\ sent' = << >>
    /\ routerKeeps
    /\ UNCHANGED sockets

\* send_state: the state of the game is sent back if there is such a game;
\* in "index" loadGame throws if there is none and the catch block broadcasts
\* game_not_found, which throws when the game has no array of sockets
SendState(c) ==
    /\ live(c)
    /\ LET id == sockets[c].gameId
       IN  IF revision = "index" /\ id # "" /\ ~loadGame(id)
           THEN /\ crashed' = (id \notin DOMAIN gameSockets)
                /\ emitted' = << >>
                /\ sent' = broadcastToGame(gameSockets, id, "game_not_found", 1)
                /\ UNCHANGED <<state, userQueue, bucket, timers, timerRef, locked, probe>>
           ELSE /\ noEngineCall
                /\ sent' = IF id # "" /\ loadGame(id)
                           THEN (IF revision = "index"
                                 THEN send(c, "game_state") ELSE respond(c, "ok"))
                           ELSE << >>
    /\ routerKeeps
    /\ UNCHANGED sockets

\* "index": a connection arrives, with ?game=id or without (id = ""), and
\* becomes a socket of that game or a list socket
Connect(c, id) ==
    /\ ~crashed
    /\ revision = "index"
    /\ sockets[c].open = "new"
    /\ noEngineCall
    /\ sockets' = [sockets EXCEPT ![c] = [open |-> "open", gameId |-> id, left |-> FALSE]]
    /\ gameSockets' = IF id # "" THEN addGameSocket(gameSockets, id, c) ELSE gameSockets
    /\ sent' = << >>
    /\ UNCHANGED <<revision, games, players>>

\* "index", add_game: createGameHandle() without an owner, storeGame, and
\* own_game_added to the sender
AddGame(c) ==
    /\ live(c)
    /\ revision = "index"
    /\ games = {}
    /\ state = createGameState(Owner)
    /\ state' = createGameState(NoOwner)
    /\ emitted' = << >>
    /\ UNCHANGED <<userQueue, bucket, timers, timerRef, locked, crashed, probe>>
    /\ games' = {GameId}
    /\ sent' = send(c, "own_game_added")
    /\ UNCHANGED <<revision, gameSockets, sockets, players>>

\* the sockets of the array after ws.close() on each of them
closeSockets(sk, cs) ==
    [k \in DOMAIN sk |-> IF k \in Range(cs) THEN closeSocket(sk, k)[k] ELSE sk[k]]

\* "index", quit_game of any sender: the game of the connection is stopped and
\* deleted, 'quit' is broadcast to its sockets, which are closed and forgotten;
\* broadcastToGame throws when the game has no array of sockets
QuitGame(c) ==
    /\ live(c)
    /\ revision = "index"
    /\ LET id == sockets[c].gameId
           out == stop(internal(<< >>))
           thrown == id \notin DOMAIN gameSockets
       IN  /\ IF loadGame(id)
              THEN /\ state' = out.state
                   /\ emitted' = Append(out.emitted,
                                        [event |-> "stopped", state |-> out.state])
                   /\ timers' = IF timerRef THEN timers - 1 ELSE timers
                   /\ timerRef' = FALSE
              ELSE /\ emitted' = << >>
                   /\ UNCHANGED <<state, timers, timerRef>>
           /\ games' = games \ {id}
           /\ crashed' = thrown
           /\ sent' = broadcastToGame(gameSockets, id, "quit", 1)
           /\ sockets' = closeSockets(sockets, socketsOf(gameSockets, id))
           /\ gameSockets' = [g \in DOMAIN gameSockets \ {id} |-> gameSockets[g]]
    /\ UNCHANGED <<userQueue, bucket, locked, probe, revision, players>>

-----------------------------------------------------------------------------
(* the users of the router: /auth, signup, load_user and send_participants  *)

\* the most users the registry holds
MaxUsers == 2

\* the ids v4() gives the users, in order, and an id no user has
Pids == << "u1", "u2" >>
NoPid == "u9"

\* the names signup is sent and the names /auth samples
SignupNames == {"bob", " Bob ", ""}
AuthNames == {"amy", "bob"}

\* String.prototype.trim and toLowerCase on the names above
trim(str) == IF str = " Bob " THEN "Bob" ELSE str
toLowerCase(str) == IF str = "Bob" THEN "bob" ELSE str

\* players[pid] = name for a new pid
registered(pid, name) ==
    [p \in DOMAIN players \cup {pid} |-> IF p = pid THEN name ELSE players[p]]

\* POST /auth with a token: a token of the registry is answered with its user,
\* any other gets a new user with a sampled name
Auth(token) ==
    /\ ~crashed
    /\ revision # "index"
    /\ noEngineCall
    /\ IF token \in DOMAIN players
       THEN players' = players
       ELSE /\ Cardinality(DOMAIN players) < MaxUsers
            /\ \E name \in AuthNames :
                  players' = registered(Pids[Cardinality(DOMAIN players) + 1], name)
    /\ sent' = << >>
    /\ UNCHANGED <<revision, games, gameSockets, sockets>>

\* signup: the trimmed name is registered under a new id unless it is empty
\* or in use, whatever its case
Signup(c, data) ==
    /\ live(c)
    /\ revision # "index"
    /\ noEngineCall
    /\ LET name == trim(data)
       IN  IF name = ""
           THEN /\ sent' = respond(c, "error")
                /\ players' = players
           ELSE IF \E p \in DOMAIN players : toLowerCase(players[p]) = toLowerCase(name)
           THEN /\ sent' = respond(c, "error")
                /\ players' = players
           ELSE /\ Cardinality(DOMAIN players) < MaxUsers
                /\ players' = registered(Pids[Cardinality(DOMAIN players) + 1], name)
                /\ sent' = respond(c, "ok")
    /\ UNCHANGED <<revision, games, gameSockets, sockets>>

\* load_user: an unknown id is answered with an error; for a known one the
\* response is built from a variable name that nothing declares, a
\* ReferenceError that nothing catches
LoadUser(c, data) ==
    /\ live(c)
    /\ revision # "index"
    /\ IF trim(data) \notin DOMAIN players
       THEN /\ noEngineCall
            /\ sent' = respond(c, "error")
       ELSE /\ uncaught
            /\ sent' = << >>
    /\ routerKeeps
    /\ UNCHANGED sockets

\* send_participants: getParticipants of part_000 and part_001a throws when
\* there is no game, that of part_001 calls map on the players object of
\* game.ts when there is one; the catch block broadcasts game_not_found
SendParticipants(c) ==
    /\ live(c)
    /\ revision # "index"
    /\ noEngineCall
    /\ LET id == sockets[c].gameId
       IN  sent' = IF (revision = "part_001") = loadGame(id)
                   THEN broadcastToGame(gameSockets, id, "game_not_found", 1)
                   ELSE respond(c, "ok")
    /\ routerKeeps
    /\ UNCHANGED sockets

\* the loop timer fires and the listener relays what the pass published
RouterTick ==
    /\ LoopGravity
    /\ sent' = relayed(gameSockets, emitted')
    /\ routerRelays

RouterDrain ==
    /\ LoopDrain
    /\ sent' = relayed(gameSockets, emitted')
    /\ routerRelays

NextRouter ==
    \/ \E c \in Conns : CreateGame(c)
    \/ \E c \in Conns : \E id \in {GameId, NoGameId} : EnterGame(c, id)
    \/ \E c \in Conns : LeaveGame(c)
    \/ \E c \in Conns : CancelGame(c)
    \/ \E c \in Conns : StartGame(c)
    \/ \E c \in Conns : \E config \in RouterConfigs : ConfigGame(c, config)
    \/ \E c \in Conns : \E raw \in RawMessages : Receive(c, raw)
    \/ \E c \in Conns : Close(c)
    \/ \E c \in Conns : SendState(c)
    \/ \E c \in Conns : \E id \in {"", GameId} : Connect(c, id)
    \/ \E c \in Conns : AddGame(c)
    \/ \E c \in Conns : QuitGame(c)
    \/ RouterTick

SpecRouter == InitRouter /\ [][NextRouter]_vars

\* the router with the input commands: games are created, entered, started
\* and played
NextInput ==
    \/ \E c \in Conns : CreateGame(c)
    \/ \E c \in Conns : \E id \in {GameId, NoGameId} : EnterGame(c, id)
    \/ \E c \in Conns : StartGame(c)
    \/ \E c \in Conns : \E dir \in {LEFT, RIGHT, DOWN, ROTATE} : HandleInput(c, dir)
    \/ RouterTick
    \/ RouterDrain

SpecInput == InitRouter /\ [][NextInput]_vars

\* the router with the commands of the users
NextUsers ==
    \/ \E c \in Conns : CreateGame(c)
    \/ \E c \in Conns : \E id \in {GameId, NoGameId} : EnterGame(c, id)
    \/ \E c \in Conns : CancelGame(c)
    \/ \E token \in {"", "u1", NoPid} : Auth(token)
    \/ \E c \in Conns : \E data \in SignupNames : Signup(c, data)
    \/ \E c \in Conns : \E data \in {"u1", NoPid} : LoadUser(c, data)
    \/ \E c \in Conns : SendParticipants(c)

SpecUsers == InitRouter /\ [][NextUsers]_vars

\* the router with the commands that follow a cancel_game
NextCancel ==
    \/ \E c \in Conns : CreateGame(c)
    \/ \E c \in Conns : EnterGame(c, GameId)
    \/ \E c \in Conns : CancelGame(c)
    \/ \E c \in Conns : StartGame(c)
    \/ \E c \in Conns : \E config \in RouterConfigs : ConfigGame(c, config)
    \/ \E c \in Conns : \E dir \in {LEFT, ROTATE} : HandleInput(c, dir)
    \/ \E c \in Conns : SendState(c)
    \/ RouterTick
    \/ RouterDrain

SpecCancel == InitRouter /\ [][NextCancel]_vars


-----------------------------------------------------------------------------
(* Claims *)

\* C1: for one blockVectorFactory closure, the draws 9k+1 .. 9k+9 return each
\* of the 9 catalog shapes exactly once (no shape repeats within the group and
\* the group of 9 covers the catalog), and no draw fails with an empty bag.
C1_BagDrawsEachShapeOnce ==
    probe.kind = "bag" =>
        /\ ~probe.threw
        /\ ~probe.repeated
        /\ probe.drawn \subseteq ShapeKeys
        /\ Cardinality(probe.drawn) = probe.inCycle
        /\ (probe.inCycle = 9 => probe.drawn = 0 .. 8)

\* the second group of nine draws is complete
C1_Witness ==
    /\ probe.kind = "bag"
    /\ probe.draws = 18
    /\ probe.inCycle = 9
    /\ Len(bucket) = 0

\* C2 (as claimed): once a game's status is ended, no operation ever changes
\* it to another value.
C2_EndedIsFinal ==
    [][state.status = statusEnded => state'.status = statusEnded]_vars

\* C3 (as claimed): every status change is an edge of the graph, either
\* waiting -> running or running -> ended; a game never goes from waiting to
\* ended, and a game that is not waiting is never set running.
C3_StatusChangesFollowGraph ==
    [][state'.status # state.status =>
          \/ state.status = statusWaiting /\ state'.status = statusRunning
          \/ state.status = statusRunning /\ state'.status = statusEnded]_vars

activeCells == toAbsVectors(state.activeBlock)

insideLocked(v) ==
    v.y >= 0 /\ v.y < Len(locked) /\ v.x >= 0 /\ v.x < Len(locked[v.y + 1])

\* C4 (as claimed): in every reachable state activeBlock is undefined or every
\* one of its cells has 0 <= x < cols and 0 <= y < rows and lies on no cell of
\* an already locked piece.
C4_ActiveBlockInBoundsAndFree ==
    state.activeBlock # Undefined =>
        \A i \in 1 .. Len(activeCells) :
            LET v == activeCells[i]
            IN  /\ 0 <= v.x /\ v.x < state.cols
                /\ 0 <= v.y /\ v.y < state.rows
                /\ insideLocked(v) => locked[v.y + 1][v.x + 1] = emptyField

\* C5 (as claimed): whenever players is non-empty, currentPlayer designates an
\* existing entry of players.
C5_CurrentPlayerExists ==
    DOMAIN state.players # {} => state.currentPlayer \in DOMAIN state.players

\* C6 (as claimed): after start() the matrix has exactly rows rows and every
\* row has exactly cols cells, for every configuration configure() accepted.
C6_MatrixKeepsDimensions ==
    state.matrix # << >> =>
        /\ Len(state.matrix) = state.rows
        /\ \A y \in 1 .. Len(state.matrix) : Len(state.matrix[y]) = state.cols

\* C7: in every reachable state level equals floor(lineCount / 10), that is
\* 10 * level <= lineCount < 10 * (level + 1).
C7_LevelIsTenthOfLineCount ==
    /\ state.level * 10 <= state.lineCount
    /\ state.lineCount < (state.level + 1) * 10

C7_Witness == state.lineCount >= 10 /\ state.level >= 1

\* the number of complete rows the active block leaves when the next step
\* down locks it, 0 when the next step down does not lock
lockingLines ==
    IF /\ state.status = statusRunning
       /\ state.activeBlock # Undefined
       /\ ~writeThrows(state.matrix, state.activeBlock)
    THEN LET erased == eraseBlock(state.matrix, state.activeBlock)
         IN  IF isBlocked(erased, shifted(state.activeBlock, 0, 1))
             THEN Cardinality(foundLinesOf(drawBlock(erased, state.activeBlock)))
             ELSE 0
    ELSE 0

pointsTable(n) ==
    CASE n = 1 -> 40 [] n = 2 -> 100 [] n = 3 -> 300 [] n = 4 -> 1200 [] OTHER -> 1500

\* C8 (as claimed): when a piece locks and n >= 1 rows are complete, lineCount
\* increases by n, the n rows are removed, the points of the player
\* currentPlayer designates increase by table[n] * (level + 1) with the level
\* of the new lineCount, and the points of every other player are unchanged.
C8_LockAwardsLinesAndPoints ==
    [][(/\ lockingLines >= 1
        /\ LoopGravity \/ (LoopDrain /\ userQueue = << DOWN >>))
       =>
       /\ state'.lineCount = state.lineCount + lockingLines
       /\ Len(state'.matrix) = Len(state.matrix)
       /\ foundLinesOf(state'.matrix) = {}
       /\ state.currentPlayer \in DOMAIN state.players
       /\ DOMAIN state'.players = DOMAIN state.players
       /\ \A p \in DOMAIN state.players :
             state'.players[p].points =
                 IF p = state.currentPlayer
                 THEN state.players[p].points
                      + pointsTable(lockingLines) * (state'.level + 1)
                 ELSE state.players[p].points]_vars

\* C9: isBlocked returns true if and only if at least one absolute cell of
\* the block has x < 0, or x > last column index, or y > last row index, or
\* has y >= 0 and lies on an occupied matrix cell; a cell with y < 0 that is
\* horizontally in bounds never by itself makes the block blocked.
C9_IsBlockedIff ==
    (probe.kind = "blocked" /\ probe.done) =>
        LET m == probe.matrix
            cells == {Vec(probe.block.zero.x + probe.block.vectors[i].x,
                          probe.block.zero.y + probe.block.vectors[i].y) :
                         i \in 1 .. Len(probe.block.vectors)}
            lastRow == ProbeRows - 1
            lastCol == ProbeCols - 1
            offending(v) ==
                \/ v.x < 0
                \/ v.x > lastCol
                \/ v.y > lastRow
                \/ (v.y >= 0 /\ v.y <= lastRow /\ v.x >= 0 /\ v.x <= lastCol
                    /\ m[v.y + 1][v.x + 1] = 1)
        IN  /\ probe.result = (\E v \in cells : offending(v))
            /\ ((\A v \in cells : (v.y < 0 /\ v.x >= 0 /\ v.x <= lastCol) \/ ~offending(v))
                    => ~probe.result)

\* a block with a cell above the board and a cell on the board is not blocked
C9_Witness ==
    /\ probe.kind = "blocked"
    /\ probe.done
    /\ ~probe.result
    /\ probe.block.zero.y < 0
    /\ \E i \in 1 .. Len(probe.block.vectors) :
          probe.block.zero.y + probe.block.vectors[i].y >= 0
    /\ \E y \in 1 .. ProbeRows, x \in 1 .. ProbeCols : probe.matrix[y][x] = 1

\* C10: for every shape of the catalog, four successive rotateBlockClockwise
\* calls yield a block whose set of relative vectors equals the original set.
C10_FourRotationsRestoreShape ==
    (probe.kind = "rotate" /\ probe.turns = 4) =>
        Range(probe.block.vectors) = Range(probe.original.vectors)

\* four rotations done, and the rotation in between did change the vectors
C10_Witness ==
    /\ probe.kind = "rotate"
    /\ probe.turns = 4
    /\ Range(rotateBlockClockwise(probe.block).vectors) # Range(probe.original.vectors)

\* the fields of GameState other than cols, rows and name are the same in
\* the next state
restUnchanged ==
    state' = [state EXCEPT !.cols = state'.cols, !.rows = state'.rows,
                           !.name = state'.name]

\* C11: configure(c) called while the status is not waiting leaves every field
\* of GameState unchanged and emits no event; called while waiting it sets
\* cols, rows and name to c's values, changes nothing else and emits exactly
\* one config_updated event.
C11_ConfigureOnlyWhileWaiting ==
    [][\A c \in Configs :
          Configure(c) =>
              IF state.status # statusWaiting
              THEN state' = state /\ emitted' = << >>
              ELSE /\ state'.cols = c.cols
                   /\ state'.rows = c.rows
                   /\ state'.name = c.name
                   /\ restUnchanged
                   /\ Len(emitted') = 1
                   /\ emitted'[1].event = "config_updated"]_vars

\* a started game on the default board right after a call that published
\* nothing and left the queue empty: configure() was refused
C11_Witness ==
    /\ state.status # statusWaiting
    /\ state.matrix # << >>
    /\ state.cols = 10
    /\ emitted = << >>
    /\ userQueue = << >>
    /\ ~crashed

\* C12: a start_game, cancel_game or change_config command of a player who
\* is not the owner of the connection's game leaves the game's GameState as it
\* was and leaves the game in the registry.
C12_NonOwnerCommandsChangeNothing ==
    [][\A c \in Conns :
          (/\ loadGame(sockets[c].gameId)
           /\ playerOf(c) # state.owner
           /\ \/ StartGame(c)
              \/ CancelGame(c)
              \/ \E config \in RouterConfigs : ConfigGame(c, config))
          => state' = state /\ games' = games]_vars

\* C13: when the board tops out in a game that was created, entered and
\* started, the status becomes ended and a stopped event is published.
C13_TopOutPublishesStopped ==
    [][(state.status = statusRunning /\ state'.status = statusEnded)
          => hasStopped(emitted')]_vars

\* C14: once stop() has returned, no tick of the game is scheduled any more.
C14_StopCancelsTheTick ==
    hasStopped(emitted) => timers = 0

\* C15: a call to moveLeft, moveRight, moveDown or rotate appends exactly one
\* action, its own, to the tail of the pending-input queue, changes no field
\* of GameState and emits no event.
C15_MovesOnlyEnqueue ==
    [][/\ MoveDown => userQueue' = Append(userQueue, DOWN)
       /\ MoveLeft => userQueue' = Append(userQueue, LEFT)
       /\ MoveRight => userQueue' = Append(userQueue, RIGHT)
       /\ Rotate => userQueue' = Append(userQueue, ROTATE)
       /\ (MoveDown \/ MoveLeft \/ MoveRight \/ Rotate) =>
              state' = state /\ emitted' = << >>]_vars

\* a running game whose queue holds three different actions in call order
C15_Witness ==
    /\ state.status = statusRunning
    /\ userQueue = << LEFT, ROTATE, DOWN >>

\* C16: a tick that starts with a non-empty queue commits a state with an
\* empty queue and publishes exactly one looped event, as its last event.
C16_DrainTickEmptiesQueueAndLoops ==
    [][LoopDrain =>
          /\ userQueue' = << >>
          /\ emitted' # << >>
          /\ \A i \in 1 .. Len(emitted') :
                emitted'[i].event = looped <=> i = Len(emitted')]_vars

\* C17: of one game-scoped broadcast, a connection gets at most one message.
C17_BroadcastAtMostOncePerConnection ==
    \A i, j \in 1 .. Len(sent) :
        (i # j /\ sent[i].n > 0 /\ sent[i].n = sent[j].n) => sent[i].to # sent[j].to

\* a connection that is open, entered the game and has not left it since
associated(sk, c) == sk[c].open = "open" /\ sk[c].gameId = GameId /\ ~sk[c].left

\* C18: a game-scoped message goes only to connections associated with the
\* game before or after the step that sends it.
C18_BroadcastOnlyToAssociated ==
    [][\A i \in 1 .. Len(sent') :
          sent'[i].n > 0 =>
              associated(sockets, sent'[i].to) \/ associated(sockets', sent'[i].to)]_vars

\* the positions of raw where a delimiter stands: an "@" with a token other
\* than a line break after it
delimiters(raw) == {i \in 1 .. Len(raw) - 1 : raw[i] = "@" /\ raw[i + 1] # "\n"}

\* no delimiter, or no ":" in the prefix that ends at the first delimiter
malformed(raw) ==
    \A i \in delimiters(raw) :
        (\A j \in delimiters(raw) : i <= j) => \A k \in 1 .. i - 1 : raw[k] # ":"

\* C19: a message without "@" and payload, or without a colon in its prefix,
\* gets exactly one error response, its connection is closed, and the game,
\* the registry and the subscriptions stay as they were.
C19_MalformedMessageIsFatal ==
    [][\A c \in Conns : \A raw \in RawMessages :
          (Receive(c, raw) /\ malformed(raw)) =>
              /\ sent' = respond(c, "error")
              /\ sockets' = [sockets EXCEPT ![c].open = "closing"]
              /\ state' = state
              /\ games' = games
              /\ gameSockets' = gameSockets]_vars

\* C20: a well-formed message with an unknown command gets exactly one error
\* response, the connection stays open and nothing else changes.
C20_UnknownCommandIsAnswered ==
    [][\A c \in Conns : \A raw \in RawMessages :
          (/\ Receive(c, raw)
           /\ ~malformed(raw)
           /\ disassembleMessage(raw).command # << "send_games" >>)
          => /\ sent' = respond(c, "error")
             /\ sockets' = sockets
             /\ state' = state
             /\ games' = games
             /\ gameSockets' = gameSockets]_vars

\* the engine operations stop, start and configure were not called in the step
notInvoked ==
    /\ state'.status = state.status
    /\ state'.cols = state.cols /\ state'.rows = state.rows /\ state'.name = state.name
    /\ timers' = timers
    /\ \A i \in 1 .. Len(emitted') :
          emitted'[i].event \notin {"started", "stopped", statusChanged, "config_updated"}

\* C21: for a game that exists and a sender who is not its owner, cancel_game
\* and start_game send the sender no response, change_config sends exactly
\* one error response, and none of them calls stop, start or configure.
\* The routers with owners and these three commands are part_000 and
\* part_001; index.ts creates games without an owner and has none of the
\* commands (its config_game is another command).
C21_NonOwnerSilentOrError ==
    [][\A c \in Conns :
          (/\ revision # "index"
           /\ loadGame(sockets[c].gameId)
           /\ playerOf(c) # state.owner) =>
              /\ (CancelGame(c) \/ StartGame(c)) =>
                    /\ \A i \in 1 .. Len(sent') : sent'[i].n = 0 => sent'[i].to # c
                    /\ notInvoked
              /\ (\E config \in RouterConfigs : ConfigGame(c, config)) =>
                    /\ sent' = respond(c, "error")
                    /\ notInvoked]_vars

\* a change_config of the non-owner p2 was answered with one error
C21_Witness ==
    /\ revision = "part_001"
    /\ games = {GameId}
    /\ sockets["c2"] = [open |-> "open", gameId |-> GameId, left |-> FALSE]
    /\ state.owner = "p1"
    /\ state.status = statusWaiting
    /\ state.name = createGameState(Owner).name
    /\ sent = respond("c2", "error")

\* the game the commands of a connection with this gameId are routed to
routedTo(gid) == IF loadGame(gid) THEN gid ELSE ""

\* C22: enter_game with an id that is not registered gets an error response
\* and changes nothing: not the game, not the subscriber lists, not the game
\* the connection's later commands are routed to.
C22_FailedEnterChangesNothing ==
    [][\A c \in Conns :
          EnterGame(c, NoGameId) =>
              /\ sent' = respond(c, "error")
              /\ state' = state
              /\ gameSockets' = gameSockets
              /\ routedTo(sockets'[c].gameId) = routedTo(sockets[c].gameId)]_vars

\* C23: addPlayer(p), as enter_game calls it, adds p with points 0 and
\* publishes one player_added event iff the status is waiting and p is not a
\* player; otherwise the state stays as it is and nothing is published.
C23_AddPlayerOnlyNewWhileWaiting ==
    [][\A c \in Conns :
          (EnterGame(c, GameId) /\ loadGame(GameId)) =>
              LET p == playerOf(c)
              IN  IF state.status = statusWaiting /\ p \notin DOMAIN state.players
                  THEN /\ DOMAIN state'.players = DOMAIN state.players \cup {p}
                       /\ state'.players[p] = [points |-> 0]
                       /\ \A q \in DOMAIN state.players : state'.players[q] = state.players[q]
                       /\ state' = [state EXCEPT !.players = state'.players]
                       /\ Len(emitted') = 1
                       /\ emitted'[1].event = "player_added"
                  ELSE state' = state /\ emitted' = << >>]_vars

C23_Witness ==
    /\ state.status = statusRunning
    /\ DOMAIN state.players = {"p1"}
    /\ socketsOf(gameSockets, GameId) = << "c1", "c2" >>
    /\ sockets["c2"] = [open |-> "open", gameId |-> GameId, left |-> FALSE]
    /\ sent = respond("c2", "ok")

\* playerId is the player the game's currentPlayer designates
isCurrentPlayer(p) == state.currentPlayer \in DOMAIN state.players /\ p = state.currentPlayer

\* C24: a move or rotate command is put into the queue only if its sender is
\* the game's current player; from anyone else it changes neither the queue
\* nor the state.
C24_OnlyCurrentPlayerEnqueues ==
    [][\A c \in Conns : \A dir \in {LEFT, RIGHT, DOWN, ROTATE} :
          (/\ HandleInput(c, dir)
           /\ loadGame(sockets[c].gameId)
           /\ ~isCurrentPlayer(playerOf(c)))
          => userQueue' = userQueue /\ state' = state]_vars

\* C25: the rotation angle of activeBlock and of nextBlock is 0, 90, 180 or
\* 270 in every state.
C25_DegreesBelowFullTurn ==
    /\ state.activeBlock # Undefined => state.activeBlock.degrees \in {0, 90, 180, 270}
    /\ state.nextBlock # Undefined => state.nextBlock.degrees \in {0, 90, 180, 270}

\* the number of looped events among the events of a step
loopedCount(events) == Cardinality({i \in 1 .. Len(events) : events[i].event = looped})

\* C26: a tick with an empty queue, more than 200 ms after the last gravity
\* step, applies one down action and publishes exactly one looped event.
C26_GravityTickStepsOnceAndLoops ==
    [][LoopGravity =>
          /\ ~crashed'
          /\ loopedCount(emitted') = 1
          /\ state.status = statusRunning => state'.stepCount = state.stepCount + 1]_vars

\* a step that applies one down action: a gravity tick, or a tick that drains
\* a queue holding one down
downStep == LoopGravity \/ (LoopDrain /\ userQueue = << DOWN >>)

\* the collision test as the claims word it: the cell v is within the columns
\* of the board, not below its last row, and on no cell of a locked piece
onBoardFree(v) ==
    /\ 0 <= v.x /\ v.x < state.cols /\ v.y < state.rows
    /\ (v.y >= 0 /\ insideLocked(v)) => locked[v.y + 1][v.x + 1] = emptyField

fitsBoard(block, dx, dy) ==
    \A i \in 1 .. Len(block.vectors) : onBoardFree(toAbsVectors(shifted(block, dx, dy))[i])

\* eraseBlock(matrix, activeBlock) throws: the block has a cell below the
\* last row of the matrix
eraseThrows == state.activeBlock # Undefined /\ writeThrows(state.matrix, state.activeBlock)

\* the matrix move and rotate test against: eraseBlock(matrix, activeBlock),
\* whose writes lengthen the rows the active block overhangs
withoutActive == IF eraseThrows THEN state.matrix ELSE eraseBlock(state.matrix, state.activeBlock)

\* !isBlocked(withoutActive, block) for the one-cell block at v
freeCell(v) ==
    ~isBlocked(withoutActive, [zero |-> v, vectors |-> << Vec(0, 0) >>, degrees |-> 0])

\* !isBlocked(withoutActive, block shifted): move and rotate would commit the block;
\* nothing is committed when eraseBlock throws
canShift(block, dx, dy) == ~eraseThrows /\ ~isBlocked(withoutActive, shifted(block, dx, dy))

\* the cell in column x of row y of matrix m holds a piece (x, y from 1)
filled(m, x, y) ==
    /\ y >= 1 /\ y <= Len(m) /\ x >= 1 /\ x <= Len(m[y])
    /\ m[y][x] \notin {emptyField, Hole}

\* the matrix m shows the locked cells and the cells of block that are not
\* above the board, and nothing else
showsOnly(m, block) ==
    /\ \A y \in 1 .. Len(m) : \A x \in 1 .. Len(m[y]) :
          filled(m, x, y) <=>
              \/ filled(locked, x, y)
              \/ \E i \in 1 .. Len(block.vectors) : toAbsVectors(block)[i] = Vec(x - 1, y - 1)
    /\ \A y \in 1 .. Len(locked) : \A x \in 1 .. Len(locked[y]) :
          filled(locked, x, y) => filled(m, x, y)
    /\ \A i \in 1 .. Len(block.vectors) :
          LET v == toAbsVectors(block)[i]
          IN  (v.y >= 0 /\ v.x >= 0) => filled(m, v.x + 1, v.y + 1)

\* C27: a down action on a running game locks the active block where it is
\* when it cannot shift one row down (its cells are occupied, activeBlock is
\* undefined, complete rows are counted in the same step), and otherwise moves
\* it down by exactly one row, the matrix showing it at the new place only.
C27_DownLocksOrShifts ==
    [][(downStep /\ state.status = statusRunning /\ state.activeBlock # Undefined) =>
          IF fitsBoard(state.activeBlock, 0, 1)
          THEN /\ state'.activeBlock = shifted(state.activeBlock, 0, 1)
               /\ showsOnly(state'.matrix, state'.activeBlock)
          ELSE /\ state'.activeBlock = Undefined
               /\ state'.lineCount = state.lineCount + lockingLines
               /\ lockingLines = 0 => showsOnly(state'.matrix, state.activeBlock)]_vars

\* a tick that applies one move action, whatever its direction
moveStep ==
    \/ LoopGravity
    \/ LoopDrain /\ userQueue \in {<< DOWN >>, << LEFT >>, << RIGHT >>}

\* the number of blockCreated events among the events of a step
createdCount(events) ==
    Cardinality({i \in 1 .. Len(events) : events[i].event = blockCreated})

\* C28: a move on a running game without an active block makes the previous
\* nextBlock the active block at its spawn origin, draws a fresh nextBlock,
\* adds 1 to blockCount, draws the new active block, publishes one
\* blockCreated event, and ends the game iff the new active block collides.
C28_MoveWithoutBlockMaterializes ==
    [][(moveStep /\ state.status = statusRunning /\ state.activeBlock = Undefined) =>
          /\ state'.activeBlock = state.nextBlock
          /\ \E rnd \in GameRandoms :
                LET made == createBlock(state.cols, bucket, rnd)
                IN  state'.nextBlock = made.block /\ bucket' = made.bucket
          /\ state'.blockCount = state.blockCount + 1
          /\ showsOnly(state'.matrix, state'.activeBlock)
          /\ createdCount(emitted') = 1
          /\ state'.status = IF fitsBoard(state.nextBlock, 0, 0)
                             THEN statusRunning ELSE statusEnded
          /\ canShift(state.nextBlock, 0, 0) <=> fitsBoard(state.nextBlock, 0, 0)]_vars

\* C29: a rotate action changes nothing when there is no active block, when
\* the game is not running or when the rotated block collides; otherwise the
\* matrix shows the rotated block and nothing of the block before that the
\* rotated block does not cover.
C29_RotateAllOrNothing ==
    [][(LoopDrain /\ userQueue = << ROTATE >>) =>
          IF \/ state.activeBlock = Undefined
             \/ state.status # statusRunning
             \/ ~fitsBoard(rotateBlockClockwise(state.activeBlock), 0, 0)
          THEN state' = state
          ELSE /\ state'.activeBlock = rotateBlockClockwise(state.activeBlock)
               /\ showsOnly(state'.matrix, state'.activeBlock)]_vars

\* C30: after a line clear that removes n complete rows the matrix is n
\* entirely empty rows followed by the rows that were not complete, in their
\* original order and with unchanged contents
incomplete(row) == ~lineComplete(row)

emptyRow(row) == \A x \in 1 .. Len(row) : row[x] = emptyField

C30_ClearedRowsReappearEmptyOnTop ==
    (probe.kind = "lines" /\ probe.done) =>
        LET n == Cardinality(foundLinesOf(probe.matrix))
            rest == SelectSeq(probe.matrix, incomplete)
        IN  /\ Len(probe.result) = n + Len(rest)
            /\ \A y \in 1 .. n :
                  Len(probe.result[y]) = Len(probe.matrix[1]) /\ emptyRow(probe.result[y])
            /\ \A y \in 1 .. Len(rest) : probe.result[n + y] = rest[y]

C30_Witness ==
    /\ probe.kind = "lines"
    /\ probe.done
    /\ foundLinesOf(probe.matrix) = {0, 2}
    /\ probe.matrix[2] = << 1, emptyField >>
    /\ probe.matrix[4] = << emptyField, 1 >>
    /\ probe.result[3] = << 1, emptyField >>
    /\ probe.result[4] = << emptyField, 1 >>

\* a tick that drains a queue holding the one action a
drains(a) == LoopDrain /\ userQueue = << a >>

\* the columns a lateral action shifts the block by
dxOf(direction) == IF direction = LEFT THEN -1 ELSE 1

\* C31: stepCount never decreases; an action that shifts or rotates the active
\* block adds exactly 1 to it; an action on a game that is not running, a
\* blocked lateral shift and a blocked rotation leave the whole state as it was.
C31_StepCountCountsAcceptedMoves ==
    [][/\ state'.stepCount >= state.stepCount
       /\ \A a \in {LEFT, RIGHT, DOWN, ROTATE} : (drains(a) /\ ~crashed') =>
             IF state.status # statusRunning
             THEN state' = state
             ELSE IF state.activeBlock = Undefined
             THEN TRUE
             ELSE LET target == IF a = ROTATE THEN rotateBlockClockwise(state.activeBlock)
                                ELSE IF a = DOWN THEN shifted(state.activeBlock, 0, 1)
                                ELSE shifted(state.activeBlock, dxOf(a), 0)
                  IN  IF fitsBoard(target, 0, 0)
                      THEN state'.stepCount = state.stepCount + 1
                      ELSE a # DOWN => state' = state]_vars

\* a freshly drawn block at the spawn origin of the board
spawned(block) ==
    /\ block # Undefined
    /\ block.zero = Vec(state'.cols \div 2, 0)
    /\ block.degrees = 0

\* C32: start() on a waiting game gives status running, a matrix of rows x
\* cols empty cells, an activeBlock and a nextBlock at (floor(cols / 2), 0)
\* with degrees 0 and an active tick, and publishes started; no looped event
\* is published while the game is still waiting.
C32_StartInitialisesTheGame ==
    /\ [](state.status = statusWaiting => (timers = 0 /\ loopedCount(emitted) = 0))
    /\ [][(Start /\ state.status = statusWaiting) =>
             /\ state'.status = statusRunning
             /\ Len(state'.matrix) = state.rows
             /\ \A y \in 1 .. state.rows :
                   /\ Len(state'.matrix[y]) = state.cols
                   /\ \A x \in 1 .. state.cols : state'.matrix[y][x] = emptyField
             /\ spawned(state'.activeBlock)
             /\ spawned(state'.nextBlock)
             /\ timers' = 1
             /\ Len(emitted') = 1
             /\ emitted'[1].event = "started"
             /\ emitted'[1].state = state']_vars

C32_Witness ==
    /\ state.status = statusRunning
    /\ timers = 1
    /\ state.cols = 5 /\ state.rows = 4
    /\ state.stepCount = 0
    /\ Len(emitted) = 1 /\ emitted[1].event = "started"
    /\ state.activeBlock # Undefined /\ state.activeBlock.zero = Vec(2, 0)
    /\ state.nextBlock # Undefined /\ state.nextBlock.zero = Vec(2, 0)
    /\ state.matrix = createMatrix(5, 4)

\* a command of connection c that is routed to the game id of its closure
gameCommand(c) ==
    \/ StartGame(c)
    \/ \E config \in RouterConfigs : ConfigGame(c, config)
    \/ \E dir \in {LEFT, ROTATE} : HandleInput(c, dir)
    \/ SendState(c)

\* the owner's cancel_game on a registered game
ownerCancels ==
    \E c \in Conns :
        CancelGame(c) /\ loadGame(sockets[c].gameId) /\ playerOf(c) = state.owner

\* C33: after the owner's cancel_game the game is in the registry no more and
\* its subscriber list is gone; it never comes back (a games_list is the
\* registry's content), and a later start_game, move, change_config or
\* send_state routed to its id changes no state.
C33_CancelledGameIsGone ==
    /\ [][ownerCancels => (GameId \notin games' /\ GameId \notin DOMAIN gameSockets')]_vars
    /\ [][(GameId \notin games /\ state # createGameState(Owner)) =>
             (GameId \notin games' /\ GameId \notin DOMAIN gameSockets')]_vars
    /\ [][\A c \in Conns :
             (gameCommand(c) /\ sockets[c].gameId = GameId /\ GameId \notin games) =>
                 UNCHANGED <<state, userQueue, bucket, timers, games, gameSockets>>]_vars

C33_Witness ==
    /\ revision = "part_001"
    /\ games = {}
    /\ GameId \notin DOMAIN gameSockets
    /\ state.status = statusEnded
    /\ sockets["c2"].gameId = GameId
    /\ sent = respond("c2", "error")
    /\ emitted = << >>

\* C34: for every catalog shape and every origin, four successive
\* rotateBlockClockwise calls bring the block's origin back to its original
\* value.
C34_FourRotationsRestoreOrigin ==
    (probe.kind = "rotate" /\ probe.turns \in {4, 8}) =>
        probe.block.zero = probe.original.zero

\* four rotations done on a block whose next rotation moves the origin
C34_Witness ==
    /\ probe.kind = "rotate"
    /\ probe.turns = 4
    /\ probe.block.zero = probe.original.zero
    /\ rotateBlockClockwise(probe.block).zero.x # probe.original.zero.x
    /\ rotateBlockClockwise(probe.block).zero.y # probe.original.zero.y

\* C35: an event the loop publishes carries the state the loop commits: the
\* state delivered with looped is the state getState() returns after the tick,
\* in the drain branch and in the gravity branch, and the state delivered with
\* linesCompleted has the completed rows removed already.
C35_EventsCarryCommittedState ==
    [][(LoopDrain \/ LoopGravity) =>
          \A i \in 1 .. Len(emitted') :
              /\ emitted'[i].event = looped => emitted'[i].state = state'
              /\ emitted'[i].event = linesCompleted =>
                    foundLinesOf(emitted'[i].state.matrix) = {}]_vars

\* C36: in a running game whose tick keeps firing, every active block locks in
\* the end or the game ends (an exception that ends the process counted as an
\* end), whatever left, right and rotate commands keep arriving.
C36_GravityIsNotPostponedForever ==
    ([]<><<Tick>>_vars) =>
        ((state.status = statusRunning /\ state.activeBlock # Undefined)
            ~> (state.activeBlock = Undefined \/ state.status = statusEnded \/ crashed))

\* C37: a game has at most one recurring tick; start() on a running game
\* schedules no second one and leaves the matrix, activeBlock, nextBlock and
\* the counters as they are.
C37_SecondStartChangesNothing ==
    /\ [](timers <= 1)
    /\ [][(Start /\ state.status = statusRunning) =>
             (timers' = timers /\ state' = state)]_vars

\* C38: in a running game with an active block, every cell of the active
\* block that is not above the board is occupied in the matrix.
C38_ActiveBlockIsDrawn ==
    (state.status = statusRunning /\ state.activeBlock # Undefined) =>
        \A i \in 1 .. Len(activeCells) :
            activeCells[i].y >= 0 =>
                filled(state.matrix, activeCells[i].x + 1, activeCells[i].y + 1)

\* C39: blockCount is the number of pieces placed on the board as active block
\* since start(): start() places the first one, and every later step adds the
\* piece it makes the active block, if any.
C39_BlockCountCountsPlacedPieces ==
    [][IF Start
       THEN state'.blockCount = 1
       ELSE state'.blockCount =
                state.blockCount +
                (IF state.activeBlock = Undefined /\ state'.activeBlock # Undefined
                 THEN 1 ELSE 0)]_vars

\* C40: a cell occupied by a locked piece stays occupied in the matrix until
\* its row is cleared: no move, rotation, blocked move, blocked rotation or
\* materialization of a later active block erases it.
C40_LockedCellsStayOccupied ==
    \A y \in 1 .. Len(locked) : \A x \in 1 .. Len(locked[y]) :
        filled(locked, x, y) => filled(state.matrix, x, y)

\* a later block has been shifted or rotated beside locked cells
C40_Witness ==
    /\ state.status = statusRunning
    /\ state.blockCount >= 1
    /\ state.activeBlock # Undefined
    /\ \/ state.activeBlock.degrees = 90
       \/ state.activeBlock.zero.x # state.cols \div 2
    /\ \E y \in 1 .. Len(locked) : \E x \in 1 .. Len(locked[y]) : filled(locked, x, y)
    /\ C40_LockedCellsStayOccupied

====
